---- MODULE Spec2Model ----
(***************************************************************************)
(* KDTreeFlann (cupoch/geometry/kdtree_flann.cu): the wrapper around the   *)
(* FLANN CUDA kd-tree.  Points are tuples of naturals, a device_vector<T>  *)
(* is a record [dim, pts] (dim is T's compile-time size, known even when   *)
(* the vector is empty), a float4_t is a 4-tuple.                          *)
(***************************************************************************)
EXTENDS Integers, Sequences, FiniteSets

\* ---- bounds of the model ------------------------------------------------
\* The header's fixed maximum neighbour count, scaled down.
NUM_MAX_NN == 1
\* Longest point set handed to SetRawData.
MaxPts == 2
\* Longest query batch.
MaxQ == 2

Dims == {2, 3}
Coords == {0, 1}
Radii == {-1, 0, 1}
Knns == -1..(NUM_MAX_NN + 1)

RECURSIVE SumSeq(_)
SumSeq(s) == IF s = <<>> THEN 0 ELSE Head(s) + SumSeq(Tail(s))

Origin(d) == [i \in 1..d |-> 0]
Unit(d) == [i \in 1..d |-> IF i = d THEN 1 ELSE 0]

\* Eigen::Vector2f / Vector3f values: the origin and the unit vectors
Points(d) == {p \in [1..d -> Coords] : SumSeq(p) <= 1}

\* device_vector<T> of at most n points out of P, T of dimension d
Vectors(d, P, n) ==
    {[dim |-> d, pts |-> s] : s \in UNION {[1..m -> P] : m \in 0..n}}

\* The point sets SetRawData is called with.
DataSets == UNION {Vectors(d, {Origin(d), Unit(d)}, MaxPts) : d \in Dims}
Data3 == {v \in DataSets : v.dim = 3}
\* The query batches the batch searches are called with: no point, one
\* point, MaxQ points.
Batches ==
    {[dim |-> d, pts |-> [i \in 1..n |-> Origin(d)]] :
        d \in Dims, n \in {0, 1, MaxQ}}
\* The query points the single-query overloads are called with.
SinglePoints == UNION {{Origin(d), Unit(d)} : d \in Dims}
SearchTypes == {"Knn", "Radius", "Hybrid", "Unknown"}
GeometryTypes == {"PointCloud", "TriangleMesh", "Image", "Unspecified"}
\* What the caller's output vectors may hold when a call is made: nothing,
\* or the entries of an earlier call.
Reused == <<7, 7, 7>>
Stale == {<<>>, Reused}

\* ---- state --------------------------------------------------------------
VARIABLES
    dimension_,      \* size_t dimension_
    dataset_size_,   \* size_t dataset_size_
    data_,           \* device_vector<float4_t> data_
    flann_dataset_,  \* unique_ptr<flann::Matrix<float>>: a view of data_
    flann_index_,    \* unique_ptr<flann::KDTreeCuda3dIndex>: the built tree
    indices,         \* the indices vector after the last call
    distance2,       \* the distance2 vector after the last call
    ret,             \* value returned by the last call (bool as 0/1)
    call,            \* the last call: [op, form, dim, n, old]
    engine,          \* engine routine the last call invoked, or "none"
    built            \* history: argument of the latest successful build

index == <<dimension_, dataset_size_, data_, flann_dataset_, flann_index_>>
vars == <<dimension_, dataset_size_, data_, flann_dataset_, flann_index_,
          indices, distance2, ret, call, engine, built>>

NullMatrix == [valid |-> FALSE, rows |-> 0, cols |-> 0]
NullIndex == [valid |-> FALSE, points |-> <<>>, rows |-> 0, cols |-> 0]
NoVector == [dim |-> 0, pts |-> <<>>]

\* ---- layout conversion --------------------------------------------------
\* Mutant: the 3D conversion copied from the 2D one, z lost.
convert_float4_functor_DropsZ(x) == <<x[1], x[2], 0, 0>>

convert_float4_functor(x) ==
    IF Len(x) = 3 THEN <<x[1], x[2], x[3], 0>> ELSE <<x[1], x[2], 0, 0>>

Transform(pts) == [i \in 1..Len(pts) |-> convert_float4_functor(pts[i])]

\* vector::resize(n): keeps the first n elements, value-initialises the rest
Resize(v, n) == [i \in 1..n |-> IF i <= Len(v) THEN v[i] ELSE 0]

\* The record of a call: the function, the overload ("batch" takes device
\* vectors, "single" one point), the dimension and length of its point
\* argument, and the dimension, count and handle the index had on entry.
Called(op, form, v) ==
    [op |-> op, form |-> form, dim |-> v.dim, n |-> Len(v.pts),
     old |-> [dim |-> dimension_, n |-> dataset_size_,
              valid |-> flann_index_.valid]]

\* ---- construction -------------------------------------------------------
InitIndex ==
    /\ dimension_ = 0
    /\ dataset_size_ = 0
    /\ data_ = <<>>
    /\ flann_dataset_ = NullMatrix
    /\ flann_index_ = NullIndex

Init ==
    /\ InitIndex
    /\ indices = <<>>
    /\ distance2 = <<>>
    /\ ret = 0
    /\ call = Called("none", "none", NoVector)
    /\ engine = "none"
    /\ built = NoVector

\* ---- SetRawData ---------------------------------------------------------
\* new flann::KDTreeCuda3dIndex(*flann_dataset_); buildIndex()
buildIndex(points, rows, cols) ==
    [valid |-> TRUE, points |-> points, rows |-> rows, cols |-> cols]

\* A build takes no output vectors.
NoOutputs == indices' = <<>> /\ distance2' = <<>>

\* Mutant: an index that exists is kept instead of being rebuilt.
SetRawData_KeepsIndex(data) ==
    /\ dimension_' = data.dim
    /\ dataset_size_' = Len(data.pts)
    /\ IF data.dim = 0 \/ Len(data.pts) = 0
       THEN /\ ret' = 0
            /\ UNCHANGED <<data_, flann_dataset_, flann_index_, built>>
       ELSE /\ data_' = Transform(data.pts)
            /\ flann_dataset_' =
                 [valid |-> TRUE, rows |-> Len(data.pts), cols |-> data.dim]
            /\ flann_index_' =
                 IF flann_index_.valid THEN flann_index_
                 ELSE buildIndex(Transform(data.pts), Len(data.pts), data.dim)
            /\ built' = data
            /\ ret' = 1
    /\ call' = Called("SetRawData", "batch", data)
    /\ engine' = "none"
    /\ NoOutputs

SetRawData(data) ==
    /\ dimension_' = data.dim
    /\ dataset_size_' = Len(data.pts)
    /\ IF data.dim = 0 \/ Len(data.pts) = 0
       THEN /\ ret' = 0
            /\ UNCHANGED <<data_, flann_dataset_, flann_index_, built>>
       ELSE /\ data_' = Transform(data.pts)
            /\ flann_dataset_' =
                 [valid |-> TRUE, rows |-> Len(data.pts), cols |-> data.dim]
            /\ flann_index_' =
                 buildIndex(Transform(data.pts), Len(data.pts), data.dim)
            /\ built' = data
            /\ ret' = 1
    /\ call' = Called("SetRawData", "batch", data)
    /\ engine' = "none"
    /\ NoOutputs

\* ---- the engine (flann::KDTreeCuda3dIndex) --------------------------------
\* Squared Euclidean distance over the x, y, z components of two float4_t.
Dist2(a, b) ==
    (a[1] - b[1]) * (a[1] - b[1]) + (a[2] - b[2]) * (a[2] - b[2])
        + (a[3] - b[3]) * (a[3] - b[3])

\* The order of equally distant points in a result is the engine's own: in
\* one call it may be by rising index, in another by falling index.
TieBreaks == {"low", "high"}

\* i is ranked before j: nearer, or as near and first in the call's order.
Closer(pts, q, i, j, tie) ==
    \/ Dist2(pts[i], q) < Dist2(pts[j], q)
    \/ /\ Dist2(pts[i], q) = Dist2(pts[j], q)
       /\ IF tie = "low" THEN i < j ELSE i > j

RECURSIVE Ranked(_, _, _, _)
Ranked(S, pts, q, tie) ==
    IF S = {} THEN <<>>
    ELSE LET m == CHOOSE i \in S : \A j \in S \ {i} : Closer(pts, q, i, j, tie)
         IN <<m>> \o Ranked(S \ {m}, pts, q, tie)

Take(s, n) == IF n >= Len(s) THEN s ELSE SubSeq(s, 1, n)

\* The engine writes rows x cols cells over the buffer buf: cell (r, c) holds
\* f(r, c) when the row has a c-th neighbour, the engine's sentinel otherwise.
WriteMatrix(buf, rows, cols, found, f(_, _)) ==
    [p \in 1..Len(buf) |->
        IF p > rows * cols THEN buf[p]
        ELSE LET r == ((p - 1) \div cols) + 1
                 c == ((p - 1) % cols) + 1
             IN IF c <= Len(found[r]) THEN f(r, found[r][c]) ELSE -1]

EngineResult(idx, queries, ind, dst, cols, found) ==
    [ret |-> SumSeq([r \in 1..Len(queries) |-> Len(found[r])]),
     indices |-> WriteMatrix(ind, Len(queries), cols, found,
                             LAMBDA r, i : i - 1),
     dists |-> WriteMatrix(dst, Len(queries), cols, found,
                           LAMBDA r, i : Dist2(idx.points[i], queries[r]))]

\* The ranked neighbours of the first n query points, one row per query:
\* the nearest k of all points / the nearest max_neighbors of those within
\* radius2.
RECURSIVE KnnRows(_, _, _, _, _)
KnnRows(idx, queries, n, k, tie) ==
    IF n = 0 THEN <<>>
    ELSE Append(KnnRows(idx, queries, n - 1, k, tie),
                Take(Ranked(1..Len(idx.points), idx.points, queries[n], tie),
                     k))

RECURSIVE RadiusRows(_, _, _, _, _, _)
RadiusRows(idx, queries, n, radius2, max_neighbors, tie) ==
    IF n = 0 THEN <<>>
    ELSE Append(RadiusRows(idx, queries, n - 1, radius2, max_neighbors, tie),
                Take(Ranked({i \in 1..Len(idx.points) :
                                Dist2(idx.points[i], queries[n]) <= radius2},
                            idx.points, queries[n], tie),
                     max_neighbors))

\* flann_index_->knnSearch(queries, indices, dists, knn, params)
knnSearch(idx, queries, ind, dst, k, tie) ==
    EngineResult(idx, queries, ind, dst, k,
                 KnnRows(idx, queries, Len(queries), k, tie))

\* flann_index_->radiusSearch(queries, indices, dists, radius2, params),
\* params.max_neighbors = max_neighbors, result matrices max_neighbors wide
radiusSearch(idx, queries, ind, dst, radius2, max_neighbors, tie) ==
    EngineResult(idx, queries, ind, dst, max_neighbors,
                 RadiusRows(idx, queries, Len(queries), radius2,
                            max_neighbors, tie))

\* ---- batch searches -----------------------------------------------------
\* Each search takes, after the arguments of the code, the order tie in
\* which the engine settles equal distances in this call.

\* An early "return -1": the caller's vectors are not touched.
Sentinel(ind, dst) ==
    [ret |-> -1, indices |-> ind, distance2 |-> dst, engine |-> "none"]

Searched(name, e) ==
    [ret |-> e.ret, indices |-> e.indices, distance2 |-> e.dists, engine |-> name]

\* Mutant: the guard against an empty or unbuilt index is missing.
SearchKNN_NoEmptyCheck(q, k, ind, dst, tie) ==
    IF q.pts = <<>> \/ k < 0 \/ k > NUM_MAX_NN
    THEN Sentinel(ind, dst)
    ELSE IF q.dim # dimension_ THEN Sentinel(ind, dst)
    ELSE LET total_size == Len(q.pts) * k
         IN Searched("knnSearch",
                knnSearch(flann_index_, Transform(q.pts),
                          Resize(ind, total_size), Resize(dst, total_size),
                          k, tie))

SearchKNN(q, k, ind, dst, tie) ==
    IF data_ = <<>> \/ q.pts = <<>> \/ dataset_size_ <= 0 \/ k < 0
          \/ k > NUM_MAX_NN
    THEN Sentinel(ind, dst)
    ELSE IF q.dim # dimension_ THEN Sentinel(ind, dst)
    ELSE LET total_size == Len(q.pts) * k
         IN Searched("knnSearch",
                knnSearch(flann_index_, Transform(q.pts),
                          Resize(ind, total_size), Resize(dst, total_size),
                          k, tie))

\* Mutant: the dimension of the query is not compared with dimension_.
SearchRadius_NoDimCheck(q, r, ind, dst, tie) ==
    IF data_ = <<>> \/ q.pts = <<>> \/ dataset_size_ <= 0
    THEN Sentinel(ind, dst)
    ELSE Searched("radiusSearch",
            radiusSearch(flann_index_, Transform(q.pts),
                         Resize(ind, Len(q.pts) * NUM_MAX_NN),
                         Resize(dst, Len(q.pts) * NUM_MAX_NN),
                         r * r, NUM_MAX_NN, tie))

\* Mutant: radius is handed to the engine unsquared.
SearchRadius_Unsquared(q, r, ind, dst, tie) ==
    IF data_ = <<>> \/ q.pts = <<>> \/ dataset_size_ <= 0
    THEN Sentinel(ind, dst)
    ELSE IF q.dim # dimension_ THEN Sentinel(ind, dst)
    ELSE Searched("radiusSearch",
            radiusSearch(flann_index_, Transform(q.pts),
                         Resize(ind, Len(q.pts) * NUM_MAX_NN),
                         Resize(dst, Len(q.pts) * NUM_MAX_NN),
                         r, NUM_MAX_NN, tie))

SearchRadius(q, r, ind, dst, tie) ==
    IF data_ = <<>> \/ q.pts = <<>> \/ dataset_size_ <= 0
    THEN Sentinel(ind, dst)
    ELSE IF q.dim # dimension_ THEN Sentinel(ind, dst)
    ELSE Searched("radiusSearch",
            radiusSearch(flann_index_, Transform(q.pts),
                         Resize(ind, Len(q.pts) * NUM_MAX_NN),
                         Resize(dst, Len(q.pts) * NUM_MAX_NN),
                         r * r, NUM_MAX_NN, tie))

\* Mutant: the engine's knnSearch is called, the radius is ignored.
SearchHybrid_AsKnn(q, r, max_nn, ind, dst, tie) ==
    IF data_ = <<>> \/ q.pts = <<>> \/ dataset_size_ <= 0 \/ max_nn < 0
    THEN Sentinel(ind, dst)
    ELSE IF q.dim # dimension_ THEN Sentinel(ind, dst)
    ELSE Searched("knnSearch",
            knnSearch(flann_index_, Transform(q.pts),
                      Resize(ind, Len(q.pts) * max_nn),
                      Resize(dst, Len(q.pts) * max_nn), max_nn, tie))

SearchHybrid(q, r, max_nn, ind, dst, tie) ==
    IF data_ = <<>> \/ q.pts = <<>> \/ dataset_size_ <= 0 \/ max_nn < 0
    THEN Sentinel(ind, dst)
    ELSE IF q.dim # dimension_ THEN Sentinel(ind, dst)
    ELSE Searched("radiusSearch",
            radiusSearch(flann_index_, Transform(q.pts),
                         Resize(ind, Len(q.pts) * max_nn),
                         Resize(dst, Len(q.pts) * max_nn),
                         r * r, max_nn, tie))

\* Search(query, param, indices, distance2): dispatch on param.GetSearchType()
Search(q, param, ind, dst, tie) ==
    CASE param.type = "Knn" -> SearchKNN(q, param.knn_, ind, dst, tie)
      [] param.type = "Radius" -> SearchRadius(q, param.radius_, ind, dst, tie)
      [] param.type = "Hybrid" ->
            SearchHybrid(q, param.radius_, param.max_nn_, ind, dst, tie)
      [] OTHER -> Sentinel(ind, dst)

\* ---- single-query overloads ---------------------------------------------
\* device_vector<T> query_dv(1, query)
One(p) == [dim |-> Len(p), pts |-> <<p>>]

\* indices = indices_dv; distance2 = distance2_dv: the host vectors take the
\* contents of the local device vectors, which start empty.
Search_single(p, param, ind, dst, tie) ==
    Search(One(p), param, <<>>, <<>>, tie)

\* Mutant: the caller's vectors are handed on, no local vectors copied back.
SearchKNN_single_NoCopyBack(p, k, ind, dst, tie) ==
    SearchKNN(One(p), k, ind, dst, tie)

SearchKNN_single(p, k, ind, dst, tie) == SearchKNN(One(p), k, <<>>, <<>>, tie)

SearchRadius_single(p, r, ind, dst, tie) ==
    SearchRadius(One(p), r, <<>>, <<>>, tie)

SearchHybrid_single(p, r, max_nn, ind, dst, tie) ==
    SearchHybrid(One(p), r, max_nn, <<>>, <<>>, tie)

\* ---- steps --------------------------------------------------------------
\* A search call returns res: the return value and the output vectors.
\* Calling the engine through a null handle is undefined: any return value
\* may come back.
\* Mutant: a search records the dimension of its query, as a build does.
Returns_StoresDimension(op, form, q, res) ==
    /\ indices' = res.indices
    /\ distance2' = res.distance2
    /\ IF res.engine # "none" /\ ~flann_index_.valid
       THEN ret' \in -1..1
       ELSE ret' = res.ret
    /\ call' = Called(op, form, q)
    /\ engine' = res.engine
    /\ dimension_' = q.dim
    /\ UNCHANGED <<dataset_size_, data_, flann_dataset_, flann_index_, built>>

Returns(op, form, q, res) ==
    /\ indices' = res.indices
    /\ distance2' = res.distance2
    /\ IF res.engine # "none" /\ ~flann_index_.valid
       THEN ret' \in -1..1
       ELSE ret' = res.ret
    /\ call' = Called(op, form, q)
    /\ engine' = res.engine
    /\ UNCHANGED <<index, built>>

\* KDTreeSearchParamKNN / Radius / Hybrid, or a param of another type
Param(type, k, r) ==
    [type |-> type,
     knn_ |-> IF type = "Knn" THEN k ELSE 0,
     max_nn_ |-> IF type = "Hybrid" THEN k ELSE 0,
     radius_ |-> IF type \in {"Radius", "Hybrid"} THEN r ELSE 0]

\* The params the tag-dispatched calls of Next are made with: one per tag.
Params == {Param(t, NUM_MAX_NN, 1) : t \in SearchTypes}

\* The function a tag-dispatched call ends in.
Callee(param) ==
    CASE param.type = "Knn" -> "SearchKNN"
      [] param.type = "Radius" -> "SearchRadius"
      [] param.type = "Hybrid" -> "SearchHybrid"
      [] OTHER -> "Search"

\* SetGeometry(geometry): points_ and vertices_ are vectors of Vector3f
SetGeometry(type, data) ==
    IF type \in {"PointCloud", "TriangleMesh"}
    THEN SetRawData(data)
    ELSE /\ ret' = 0
         /\ call' = Called("SetGeometry", "batch", NoVector)
         /\ engine' = "none"
         /\ NoOutputs
         /\ UNCHANGED <<index, built>>

\* ---- the life of one index: any calls in any order ------------------------
DoSetRawData == \E data \in DataSets : SetRawData(data)

DoSetGeometry ==
    \E type \in GeometryTypes :
        IF type \in {"PointCloud", "TriangleMesh"}
        THEN \E data \in Data3 : SetGeometry(type, data)
        ELSE SetGeometry(type, NoVector)

\* The orders the engine may settle equal distances in when called for q:
\* there is nothing to order with fewer than two points, or when the call
\* returns at the dimension check.
Ties(q) ==
    IF Len(data_) > 1 /\ q.dim = dimension_ THEN TieBreaks ELSE {"low"}

\* The caller hands every search the vectors of an earlier call: Reused.
DoSearchKNN ==
    \E q \in Batches, k \in Knns : \E tie \in Ties(q) :
        Returns("SearchKNN", "batch", q, SearchKNN(q, k, Reused, Reused, tie))

DoSearchRadius ==
    \E q \in Batches, r \in Radii : \E tie \in Ties(q) :
        Returns("SearchRadius", "batch", q,
                SearchRadius(q, r, Reused, Reused, tie))

DoSearchHybrid ==
    \E q \in Batches, r \in Radii, k \in Knns : \E tie \in Ties(q) :
        Returns("SearchHybrid", "batch", q,
                SearchHybrid(q, r, k, Reused, Reused, tie))

DoSearch ==
    \E q \in Batches, param \in Params : \E tie \in Ties(q) :
        Returns(Callee(param), "batch", q,
                Search(q, param, Reused, Reused, tie))

DoSearchKNN_single ==
    \E p \in SinglePoints, k \in Knns : \E tie \in Ties(One(p)) :
        Returns("SearchKNN", "single", One(p),
                SearchKNN_single(p, k, Reused, Reused, tie))

DoSearchRadius_single ==
    \E p \in SinglePoints, r \in Radii : \E tie \in Ties(One(p)) :
        Returns("SearchRadius", "single", One(p),
                SearchRadius_single(p, r, Reused, Reused, tie))

DoSearchHybrid_single ==
    \E p \in SinglePoints, r \in Radii, k \in Knns : \E tie \in Ties(One(p)) :
        Returns("SearchHybrid", "single", One(p),
                SearchHybrid_single(p, r, k, Reused, Reused, tie))

DoSearch_single ==
    \E p \in SinglePoints, param \in Params : \E tie \in Ties(One(p)) :
        Returns(Callee(param), "single", One(p),
                Search_single(p, param, Reused, Reused, tie))

Next ==
    \/ DoSetRawData
    \/ DoSetGeometry
    \/ DoSearchKNN
    \/ DoSearchRadius
    \/ DoSearchHybrid
    \/ DoSearch
    \/ DoSearchKNN_single
    \/ DoSearchRadius_single
    \/ DoSearchHybrid_single
    \/ DoSearch_single

Spec == Init /\ [][Next]_vars

\* ---- vocabulary of the properties ---------------------------------------
SearchOps == {"SearchKNN", "SearchRadius", "SearchHybrid", "Search"}
IsSearch == call.op \in SearchOps

\* The state follows construction or a build call. A search leaves the index
\* as it is (C5), so every index state Next reaches is met in such a state;
\* the properties that range over all the calls that could be made against
\* an index state are evaluated there.
AtBuild == ~IsSearch

\* The query batches and the params of the properties that range over the
\* calls that could be made in a state: the batches of Next and every
\* one-point batch; every param.
AllPoints == UNION {Points(d) : d \in Dims}
AllBatches == Batches \cup {[dim |-> Len(p), pts |-> <<p>>] : p \in AllPoints}
AllParams == {Param(t, k, r) : t \in SearchTypes, k \in Knns, r \in Radii}

\* A point in the 4-component layout, unused components zero.
Pad(p) == [i \in 1..4 |-> IF i <= Len(p) THEN p[i] ELSE 0]
PadAll(pts) == [i \in 1..Len(pts) |-> Pad(pts[i])]

\* A successful build has happened / the latest build call succeeded.
EverBuilt == built # NoVector
LatestBuildOk == EverBuilt /\ dataset_size_ > 0

\* The handle is non-null and stands for the stored data, dimension, count.
HandleConsistent ==
    /\ flann_index_ = [valid |-> TRUE, points |-> data_,
                       rows |-> dataset_size_, cols |-> dimension_]
    /\ flann_dataset_ = [valid |-> TRUE, rows |-> dataset_size_,
                         cols |-> dimension_]

\* The indices a result table holds (the engine's sentinel -1 is no index).
Filled(ind) == {ind[i] : i \in 1..Len(ind)} \ {-1}

\* All data points coincide: one within reach of a query means all are.
AllSame == \A i, j \in 1..Len(data_) : data_[i] = data_[j]

\* The 0-based indices of the points of the latest built set within squared
\* distance d2 of p.
Within(p, d2) ==
    {i - 1 : i \in {j \in 1..Len(built.pts) :
                        Dist2(Pad(built.pts[j]), Pad(p)) <= d2}}

Min(a, b) == IF a < b THEN a ELSE b

\* ---- C1 -----------------------------------------------------------------
\* C1: a build that fails (SetRawData with an empty point set) leaves the
\* index in its prior state; stated for a prior state that is Built: the
\* recorded dimension and count are those the index had on entry.
C1_FailedBuildKeepsState ==
    (call.op = "SetRawData" /\ ret = 0 /\ call.old.valid) =>
        /\ dimension_ = call.old.dim
        /\ dataset_size_ = call.old.n

\* ---- C2 -----------------------------------------------------------------
\* C2: while no successful build has happened every search returns -1 and
\* does not call the engine; and whenever a search does call the engine the
\* handle is non-null and was built over the stored padded data with the
\* recorded dimension and count.
C2_NoIndexNoDeref ==
    /\ (IsSearch /\ ~EverBuilt) => (ret = -1 /\ engine = "none")
    /\ engine # "none" => HandleConsistent
    /\ AtBuild =>
        \A q \in AllBatches, k \in Knns, r \in Radii, tie \in TieBreaks :
            LET a == SearchKNN(q, k, <<>>, <<>>, tie)
                b == SearchRadius(q, r, <<>>, <<>>, tie)
                c == SearchHybrid(q, r, k, <<>>, <<>>, tie)
            IN /\ ~EverBuilt => (a.ret = -1 /\ b.ret = -1 /\ c.ret = -1)
               /\ (a.engine # "none" \/ b.engine # "none"
                                     \/ c.engine # "none")
                    => HandleConsistent

\* A search made after nothing but a failed build.
C2_Witness ==
    /\ IsSearch /\ ~EverBuilt /\ dimension_ = call.dim /\ call.n > 0
    /\ ret = -1

\* ---- C3 -----------------------------------------------------------------
MismatchedBatches == {q \in AllBatches : q.pts # <<>> /\ q.dim # built.dim}

\* C3 as stated: after a successful build every search with points of
\* another dimension returns -1, calls no engine routine and leaves the
\* caller's output vectors as they were, in the batch and in the single form.
C3_MismatchLeavesOutputs ==
    (EverBuilt /\ AtBuild) =>
        \A q \in MismatchedBatches, k \in Knns, r \in Radii, pre \in Stale,
           tie \in TieBreaks :
            /\ SearchKNN(q, k, pre, pre, tie) = Sentinel(pre, pre)
            /\ SearchRadius(q, r, pre, pre, tie) = Sentinel(pre, pre)
            /\ SearchHybrid(q, r, k, pre, pre, tie) = Sentinel(pre, pre)
            /\ Len(q.pts) = 1 =>
                /\ SearchKNN_single(q.pts[1], k, pre, pre, tie)
                        = Sentinel(pre, pre)
                /\ SearchRadius_single(q.pts[1], r, pre, pre, tie)
                        = Sentinel(pre, pre)
                /\ SearchHybrid_single(q.pts[1], r, k, pre, pre, tie)
                        = Sentinel(pre, pre)

\* C3 (amended): the index keeps the dimension of the latest successful
\* build, and every search with points of another dimension returns -1
\* without calling the engine; the batch form leaves the caller's vectors as
\* they were, the single-query form leaves them empty.
C3_MismatchFails ==
    EverBuilt =>
        /\ flann_index_.cols = built.dim
        /\ flann_dataset_.cols = built.dim
        /\ (IsSearch /\ call.dim # built.dim) => (ret = -1 /\ engine = "none")
        /\ (IsSearch /\ call.dim # built.dim /\ call.form = "batch")
                => indices = Reused /\ distance2 = Reused
        /\ (IsSearch /\ call.dim # built.dim /\ call.form = "single")
                => indices = <<>> /\ distance2 = <<>>
        /\ AtBuild =>
            \A q \in MismatchedBatches, k \in Knns, r \in Radii,
               pre \in Stale, tie \in TieBreaks :
                /\ SearchKNN(q, k, pre, pre, tie) = Sentinel(pre, pre)
                /\ SearchRadius(q, r, pre, pre, tie) = Sentinel(pre, pre)
                /\ SearchHybrid(q, r, k, pre, pre, tie) = Sentinel(pre, pre)
                /\ Len(q.pts) = 1 =>
                    /\ SearchKNN_single(q.pts[1], k, pre, pre, tie)
                            = Sentinel(<<>>, <<>>)
                    /\ SearchRadius_single(q.pts[1], r, pre, pre, tie)
                            = Sentinel(<<>>, <<>>)
                    /\ SearchHybrid_single(q.pts[1], r, k, pre, pre, tie)
                            = Sentinel(<<>>, <<>>)

\* A batch search with 2D points on a usable 3D index: stale vectors kept.
C3_Witness ==
    /\ IsSearch /\ call.form = "batch" /\ call.n > 0
    /\ LatestBuildOk /\ built.dim = 3 /\ call.dim = 2
    /\ ret = -1 /\ indices = Reused

\* ---- C4 -----------------------------------------------------------------
\* C4: batch SearchKNN returns -1 exactly when no index is built, the batch
\* is empty, k < 0, k > NUM_MAX_NN or the query dimension differs from the
\* index dimension; otherwise it calls the engine and both tables hold
\* exactly Q*k entries, whatever they held before.
C4_KnnSentinelIff ==
    AtBuild =>
        \A q \in AllBatches, k \in Knns, pre \in Stale, tie \in TieBreaks :
            LET s == SearchKNN(q, k, pre, pre, tie)
            IN /\ s.ret = -1 <=>
                    \/ ~EverBuilt
                    \/ q.pts = <<>>
                    \/ k < 0
                    \/ k > NUM_MAX_NN
                    \/ q.dim # built.dim
               /\ s.ret # -1 =>
                    /\ s.engine = "knnSearch"
                    /\ Len(s.indices) = Len(q.pts) * k
                    /\ Len(s.distance2) = Len(q.pts) * k

RowOf(c, len, Q) == ((c - 1) \div (len \div Q)) + 1

\* The result s of a search for batch q holds only indices into pts, each
\* with the squared distance from that point to the row's query point.
AnswersFrom(s, q, pts) ==
    \A c \in 1..Len(s.indices) :
        s.indices[c] # -1 =>
            /\ s.indices[c] \in 0..(Len(pts) - 1)
            /\ s.distance2[c] =
                 Dist2(Pad(pts[s.indices[c] + 1]),
                       Pad(q.pts[RowOf(c, Len(s.indices), Len(q.pts))]))

\* C6: after a successful build the recorded dimension and count are those
\* of the new point set, the padded data and the index hold exactly its
\* points (unused components zero), and every search that reaches the
\* engine answers with indices 0..|P|-1 of the latest built set only.
C6_RebuildReplaces ==
    /\ (call.op = "SetRawData" /\ ret = 1) =>
            /\ built.dim = call.dim /\ Len(built.pts) = call.n
            /\ dimension_ = built.dim
            /\ dataset_size_ = Len(built.pts)
    /\ EverBuilt =>
            /\ data_ = PadAll(built.pts)
            /\ flann_index_ = [valid |-> TRUE, points |-> PadAll(built.pts),
                               rows |-> Len(built.pts), cols |-> built.dim]
    /\ (IsSearch /\ engine # "none") =>
            Filled(indices) \subseteq 0..(Len(built.pts) - 1)
    /\ AtBuild =>
            \A q \in AllBatches, param \in AllParams, tie \in TieBreaks :
                LET s == Search(q, param, <<>>, <<>>, tie)
                IN s.engine # "none" => AnswersFrom(s, q, built.pts)

\* A successful build over a Built index, the new set smaller and of the
\* other dimension.
C6_Witness ==
    /\ call.op = "SetRawData" /\ ret = 1 /\ call.old.valid
    /\ call.old.n > dataset_size_ /\ call.old.dim # dimension_

\* ---- C7 -----------------------------------------------------------------
\* The points SearchHybrid(p, r, max_k) / SearchRadius(p, r) return, the
\* engine settling equal distances in the order th / tr.
HybridFound(p, r, max_k, th) ==
    Filled(SearchHybrid_single(p, r, max_k, <<>>, <<>>, th).indices)
RadiusFound(p, r, tr) ==
    Filled(SearchRadius_single(p, r, <<>>, <<>>, tr).indices)

\* The set h holds at most max_k points out of the set a, and none of them
\* is farther from p than a point of a left out.
NearestOf(h, a, p, max_k) ==
    /\ h \subseteq a
    /\ Cardinality(h) <= max_k
    /\ \A i \in h, j \in a \ h :
            Dist2(data_[i + 1], Pad(p)) <= Dist2(data_[j + 1], Pad(p))

\* C7 as stated: for every max_k >= 0, also above NUM_MAX_NN, SearchHybrid
\* returns at most max_k of the points SearchRadius returns, the nearest.
C7_HybridSubsetAnyMaxK ==
    (LatestBuildOk /\ AtBuild) =>
        \A p \in Points(dimension_), r \in Radii,
           max_k \in 0..(NUM_MAX_NN + 1), th \in TieBreaks, tr \in TieBreaks :
            NearestOf(HybridFound(p, r, max_k, th), RadiusFound(p, r, tr),
                      p, max_k)

\* C7 (amended): for every max_k >= 0 SearchHybrid returns the nearest max_k
\* of the points within the radius (all of them when they are fewer), and
\* these are among the points SearchRadius returns whenever no more than
\* NUM_MAX_NN points lie within the radius.
C7_HybridNearestInReach ==
    (LatestBuildOk /\ AtBuild) =>
        \A p \in Points(dimension_), r \in Radii,
           max_k \in 0..(NUM_MAX_NN + 1), th \in TieBreaks, tr \in TieBreaks :
            LET h == HybridFound(p, r, max_k, th)
                reach == Within(p, r * r)
            IN /\ NearestOf(h, reach, p, max_k)
               /\ Cardinality(h) = Min(max_k, Cardinality(reach))
               /\ Cardinality(reach) <= NUM_MAX_NN =>
                    h \subseteq RadiusFound(p, r, tr)

\* A hybrid search that filled all its max_nn slots with more points in
\* reach than slots.
C7_Witness ==
    /\ call.op = "SearchHybrid" /\ call.form = "single"
    /\ dataset_size_ > NUM_MAX_NN /\ AllSame
    /\ ret = NUM_MAX_NN /\ Len(indices) = NUM_MAX_NN

\* ---- C8 -----------------------------------------------------------------
Same(a, b) ==
    a.ret = b.ret /\ a.indices = b.indices /\ a.distance2 = b.distance2

\* Every single-query overload against the batch form on the one-element
\* batch holding the same point, for every argument, whatever the outputs
\* held before, the engine settling equal distances alike in both:
\* Agree(single result, batch result, outputs before).
SingleAgainstBatch(Agree(_, _, _)) ==
    \A p \in AllPoints, pre \in Stale, tie \in TieBreaks :
        /\ \A param \in AllParams :
            Agree(Search_single(p, param, pre, pre, tie),
                  Search(One(p), param, pre, pre, tie), pre)
        /\ \A k \in Knns :
            Agree(SearchKNN_single(p, k, pre, pre, tie),
                  SearchKNN(One(p), k, pre, pre, tie), pre)
        /\ \A r \in Radii :
            /\ Agree(SearchRadius_single(p, r, pre, pre, tie),
                     SearchRadius(One(p), r, pre, pre, tie), pre)
            /\ \A max_nn \in Knns :
                Agree(SearchHybrid_single(p, r, max_nn, pre, pre, tie),
                      SearchHybrid(One(p), r, max_nn, pre, pre, tie), pre)

\* C8 as stated: each single-query overload returns the same code and
\* leaves the same outputs as the batch form on a one-element batch.
C8_SingleSameAsBatch ==
    AtBuild => SingleAgainstBatch(LAMBDA a, b, pre : Same(a, b))

\* The single-query result a against the batch result b, outputs holding pre
\* before: the same code; the same outputs on success; on failure the batch
\* form's outputs still hold pre and the single form's are empty.
SameButCleared(a, b, pre) ==
    /\ a.ret = b.ret
    /\ b.ret # -1 => Same(a, b)
    /\ b.ret = -1 =>
        /\ b.indices = pre /\ b.distance2 = pre
        /\ a.indices = <<>> /\ a.distance2 = <<>>

\* C8 (amended): each single-query overload returns the same code as the
\* batch form on a one-element batch; on success it leaves the same outputs;
\* on failure the batch form leaves the caller's outputs untouched and the
\* single-query form leaves them empty.
C8_SingleSameOnSuccess ==
    /\ (IsSearch /\ call.form = "single" /\ ret = -1)
            => indices = <<>> /\ distance2 = <<>>
    /\ AtBuild => SingleAgainstBatch(SameButCleared)

\* A single-query call that failed on a usable index.
C8_Witness ==
    /\ IsSearch /\ call.form = "single" /\ LatestBuildOk
    /\ ret = -1 /\ indices = <<>> /\ distance2 = <<>>

\* ---- C9 -----------------------------------------------------------------
\* C9 as stated: a build of a non-empty set succeeds, and after it the
\* single-point KNN query with k = 1 at P[i] returns index i, distance 0.
C9_SelfIsNearest ==
    /\ (call.op = "SetRawData" /\ call.n > 0) => ret = 1
    /\ (LatestBuildOk /\ AtBuild) =>
        \A i \in 1..Len(built.pts), tie \in TieBreaks :
            LET s == SearchKNN_single(built.pts[i], 1, <<>>, <<>>, tie)
            IN s.indices = <<i - 1>> /\ s.distance2 = <<0>>

\* C9 (amended): it returns the index of a point equal to P[i] (index i when
\* P[i] occurs once), distance 0.
C9_SelfOrTwinIsNearest ==
    /\ (call.op = "SetRawData" /\ call.n > 0) => ret = 1
    /\ (LatestBuildOk /\ AtBuild) =>
        \A i \in 1..Len(built.pts), tie \in TieBreaks :
            LET s == SearchKNN_single(built.pts[i], 1, <<>>, <<>>, tie)
            IN /\ s.ret = 1
               /\ Len(s.indices) = 1
               /\ s.indices[1] \in 0..(Len(built.pts) - 1)
               /\ built.pts[s.indices[1] + 1] = built.pts[i]
               /\ s.distance2 = <<0>>

\* A k = 1 single-point query answered at distance 0 on a set holding the
\* same point twice.
C9_Witness ==
    /\ call.op = "SearchKNN" /\ call.form = "single"
    /\ dataset_size_ > 1 /\ AllSame
    /\ ret = 1 /\ distance2 = <<0>>

\* ---- C10 ----------------------------------------------------------------
\* SearchRadius(p, r) returns, in a table NUM_MAX_NN wide, the set reach or
\* NUM_MAX_NN members of it, and as many as the table holds when reach is
\* larger than the table.
RadiusReturns(p, r, reach, tie) ==
    LET s == SearchRadius_single(p, r, <<>>, <<>>, tie)
        cap == Min(NUM_MAX_NN, Cardinality(reach))
    IN /\ Len(s.indices) = NUM_MAX_NN /\ Len(s.distance2) = NUM_MAX_NN
       /\ Filled(s.indices) \subseteq reach
       /\ Cardinality(Filled(s.indices)) = cap
       /\ s.ret = cap

\* C10 as stated: the points at Euclidean distance <= r, for r of any sign.
C10_RadiusExactAnySign ==
    (LatestBuildOk /\ AtBuild) =>
        \A p \in Points(dimension_), r \in Radii, tie \in TieBreaks :
            RadiusReturns(p, r, IF r < 0 THEN {} ELSE Within(p, r * r), tie)

\* C10 (amended): the points at Euclidean distance <= |r|.
C10_RadiusExactAbs ==
    (LatestBuildOk /\ AtBuild) =>
        \A p \in Points(dimension_), r \in Radii, tie \in TieBreaks :
            RadiusReturns(p, r, Within(p, r * r), tie)

\* A radius search with more points in reach than NUM_MAX_NN.
C10_Witness ==
    /\ call.op = "SearchRadius" /\ call.form = "single"
    /\ dataset_size_ > NUM_MAX_NN /\ AllSame
    /\ ret = NUM_MAX_NN /\ Len(indices) = NUM_MAX_NN
====
